---------------------------- MODULE Spec2Model ----------------------------
(***************************************************************************)
(* A model of the address-space subsystem of VSRTL                         *)
(* (src/core/vsrtl_addressspace.h, lines 1-200): class AddressSpace, a     *)
(* sparse byte store with initialization segments that are replayed on     *)
(* reset, and class AddressSpaceMM, which adds memory-mapped I/O regions   *)
(* kept in an ordered map keyed by the last address of each region.        *)
(*                                                                         *)
(* Addresses are unsigned machine words; the model keeps the wrap-around   *)
(* arithmetic of the code but over AddrMod addresses instead of 2^32.      *)
(* A value (VSRTL_VT_U) is kept as its WordBytes bytes, least significant  *)
(* first, every byte a true 8-bit quantity, so that the byte-wise          *)
(* operations of the code (& 0xff, >>= 8, << (i * CHAR_BIT), |=) are       *)
(* modelled exactly.                                                       *)
(***************************************************************************)
EXTENDS Integers, Sequences, FiniteSets, TLC

VARIABLES
    cls,                        \* dynamic type of the object: "AddressSpace" or "AddressSpaceMM"
    m_data,                     \* AddressSpace::m_data, the live byte store
    m_initializationMemories,   \* AddressSpace::m_initializationMemories
    m_mmapRegions,              \* AddressSpaceMM::m_mmapRegions
    ioCalls,                    \* the I/O callbacks invoked by the last call, in order
    last,                       \* the last call: its name, arguments and result
    failed,                     \* an assert of the last call failed: the program has aborted
    written,                    \* history: the addresses written in m_data since it was last cleared
    elementSizes,               \* history: sizeof(T) of the call that recorded each segment
    replayWrites,               \* history: the writeMem calls the last reset issued, as [seg, size]
    nops                        \* number of calls made so far

vars == <<cls, m_data, m_initializationMemories, m_mmapRegions, ioCalls, last, failed, written,
         elementSizes, replayWrites, nops>>

---------------------------------------------------------------------------
(* Bounds of the model *)

AddrMod == 8        \* number of addresses (stands for 2^32); arithmetic wraps modulo AddrMod
MaxOps == 3         \* calls per behaviour
MaxN == 2           \* elements per initialization payload
MaxSize == 3        \* largest size passed to addIORegion / removeIORegion

(* Program constants *)

WordBytes == 4      \* sizeof(VSRTL_VT_U), the default size of writeMem
ByteSize == 1       \* sizeof(uint8_t), the size reset passes to writeMem

Addr == 0 .. (AddrMod - 1)
NoByte == -1                                \* no entry in the unordered_map
EmptyStore == [a \in Addr |-> NoByte]
Zero == <<0, 0, 0, 0>>                      \* VSRTL_VT_U value = 0

AddU(a, i) == (a + i) % AddrMod             \* unsigned addition
SubU(a, b) == (a + AddrMod - b) % AddrMod   \* unsigned subtraction

---------------------------------------------------------------------------
(* Bit and byte arithmetic *)

RECURSIVE BitOr(_, _)
BitOr(x, y) ==
    IF x = 0 THEN y
    ELSE IF y = 0 THEN x
    ELSE (IF x % 2 = 1 \/ y % 2 = 1 THEN 1 ELSE 0) + 2 * BitOr(x \div 2, y \div 2)

\* a writeMem that stores the most significant byte first
LowByte_top(value) == value[WordBytes]

\* value & 0xff
LowByte(value) == value[1]

\* a writeMem that forgets value >>= 8
ShiftRight8_forgotten(value) == value

\* value >>= 8
ShiftRight8(value) == <<value[2], value[3], value[4], 0>>

\* a read that forgets << (i * CHAR_BIT)
OrShifted_unshifted(value, b, i) == [value EXCEPT ![1] = BitOr(@, b)]

\* value |= b << (i * CHAR_BIT), for a byte b and 0 <= i < WordBytes
OrShifted(value, b, i) == [value EXCEPT ![i + 1] = BitOr(@, b)]

---------------------------------------------------------------------------
(* class AddressSpace *)

contains(d, address) == d[address] # NoByte

RECURSIVE WriteLoop(_, _, _, _, _)
WriteLoop(d, address, value, size, i) ==
    IF i < size
    THEN WriteLoop([d EXCEPT ![AddU(address, i)] = LowByte(value)],
                   address, ShiftRight8(value), size, i + 1)
    ELSE d

\* AddressSpace::writeMem: the store after the call
AddressSpace_writeMem(d, address, value, size) == WriteLoop(d, address, value, size, 0)

\* an operator[] whose inserted byte is left uninitialized (here 0xFF)
Subscript_uninitialized(d, address) ==
    IF contains(d, address) THEN d ELSE [d EXCEPT ![address] = 255]

\* m_data[address]: operator[] inserts a value-initialized byte on a miss
Subscript(d, address) == IF contains(d, address) THEN d ELSE [d EXCEPT ![address] = 0]

RECURSIVE ReadLoop(_, _, _, _, _)
ReadLoop(d, address, value, width, i) ==
    IF i < width
    THEN LET d1 == Subscript(d, address)
         IN ReadLoop(d1, AddU(address, 1), OrShifted(value, d1[address], i), width, i + 1)
    ELSE [d |-> d, value |-> value]

\* AddressSpace::readMem: the store after the call and the value returned
AddressSpace_readMem(d, address, width) == ReadLoop(d, address, Zero, width, 0)

\* m_data.at(address): the byte, or a throw of std::out_of_range on a miss
at(d, address) ==
    [threw |-> ~contains(d, address), byte |-> IF contains(d, address) THEN d[address] ELSE 0]

\* a readMemConst that calls m_data.at(address) without asking contains(address) first
RECURSIVE ReadConstLoop_unguarded(_, _, _, _, _)
ReadConstLoop_unguarded(d, address, value, width, i) ==
    IF i < width
    THEN LET b == at(d, address)
         IN IF b.threw
            THEN [d |-> d, value |-> value, threw |-> TRUE]
            ELSE ReadConstLoop_unguarded(d, AddU(address, 1), OrShifted(value, b.byte, i),
                                         width, i + 1)
    ELSE [d |-> d, value |-> value, threw |-> FALSE]

RECURSIVE ReadConstLoop(_, _, _, _, _)
ReadConstLoop(d, address, value, width, i) ==
    IF i < width
    THEN IF contains(d, address)
         THEN LET b == at(d, address)
              IN IF b.threw
                 THEN [d |-> d, value |-> value, threw |-> TRUE]
                 ELSE ReadConstLoop(d, AddU(address, 1), OrShifted(value, b.byte, i),
                                    width, i + 1)
         ELSE ReadConstLoop(d, AddU(address, 1), OrShifted(value, 0, i), width, i + 1)
    ELSE [d |-> d, value |-> value, threw |-> FALSE]

\* a readMemConst that reads through operator[] as readMem does
AddressSpace_readMemConst_subscript(d, address, width) ==
    AddressSpace_readMem(d, address, width) @@ [threw |-> FALSE]

\* AddressSpace::readMemConst: the store after the call and the value returned
AddressSpace_readMemConst(d, address, width) == ReadConstLoop(d, address, Zero, width, 0)

---------------------------------------------------------------------------
(* class AddressSpaceMM *)

\* One entry of m_mmapRegions: the key it is stored under and its MMapValue
MMapValue(key, base, size, io) == [key |-> key, base |-> base, size |-> size, io |-> io]

\* nullptr / m_mmapRegions.end()
NoRegion == [key |-> NoByte, base |-> NoByte, size |-> 0, io |-> "nullptr"]

\* std::map::lower_bound: the entry with the smallest key >= address
lower_bound(R, address) ==
    LET ge == {r \in R : r.key >= address}
    IN IF ge = {} THEN NoRegion
       ELSE CHOOSE r \in ge : \A q \in ge : r.key <= q.key

\* a lookup that takes the next region at or after the address without the base check
findMMapRegion_noBaseCheck(R, address) ==
    IF R = {} THEN NoRegion ELSE lower_bound(R, address)

findMMapRegion(R, address) ==
    IF R = {} THEN NoRegion
    ELSE LET it == lower_bound(R, address)
         IN IF it = NoRegion THEN NoRegion
            ELSE IF address < it.base THEN NoRegion
            ELSE it

\* A call of a region's ioWrite / ioRead functor
IOWrite(r, offset, value, size) ==
    [fn |-> "ioWrite", key |-> r.key, io |-> r.io, offset |-> offset, value |-> value, width |-> size]
IORead(r, offset, width) ==
    [fn |-> "ioRead", key |-> r.key, io |-> r.io, offset |-> offset, value |-> Zero, width |-> width]

\* AddressSpaceMM::writeMem on the store and call log o = [d, calls]
AddressSpaceMM_writeMem(R, o, address, value, size) ==
    LET mmapregion == findMMapRegion(R, address)
    IN IF mmapregion # NoRegion
       THEN [d |-> o.d,
             calls |-> Append(o.calls, IOWrite(mmapregion, SubU(address, mmapregion.base), value, size))]
       ELSE [d |-> AddressSpace_writeMem(o.d, address, value, size), calls |-> o.calls]

\* AddressSpaceMM::readMem; rv is what the region's ioRead returns
AddressSpaceMM_readMem(R, d, address, width, rv) ==
    LET mmapregion == findMMapRegion(R, address)
    IN IF mmapregion # NoRegion
       THEN [d |-> d, value |-> rv,
             calls |-> <<IORead(mmapregion, SubU(address, mmapregion.base), width)>>]
       ELSE LET b == AddressSpace_readMem(d, address, width)
            IN [d |-> b.d, value |-> b.value, calls |-> <<>>]

\* AddressSpaceMM::readMemConst; rv is what the region's ioRead returns
AddressSpaceMM_readMemConst(R, d, address, width, rv) ==
    LET mmapregion == findMMapRegion(R, address)
    IN IF mmapregion # NoRegion
       THEN [d |-> d, value |-> rv, threw |-> FALSE,
             calls |-> <<IORead(mmapregion, SubU(address, mmapregion.base), width)>>]
       ELSE LET b == AddressSpace_readMemConst(d, address, width)
            IN [d |-> b.d, value |-> b.value, threw |-> b.threw, calls |-> <<>>]

\* The key addIORegion / removeIORegion compute: baseAddr + size - 1, unsigned
RegionKey(baseAddr, size) == (baseAddr + size + AddrMod - 1) % AddrMod

\* The two asserts of addIORegion
addIORegion_asserts(R, baseAddr, size) ==
    /\ findMMapRegion(R, baseAddr) = NoRegion
    /\ findMMapRegion(R, RegionKey(baseAddr, size)) = NoRegion
    /\ size > 0

\* m_mmapRegions[baseAddr + size - 1] = MMapValue{baseAddr, size, io}
addIORegion(R, baseAddr, size, io) ==
    LET key == RegionKey(baseAddr, size)
    IN {r \in R : r.key # key} \cup {MMapValue(key, baseAddr, size, io)}

\* m_mmapRegions.find(baseAddr + size - 1) != end()
removeIORegion_assert(R, baseAddr, size) ==
    \E r \in R : r.key = RegionKey(baseAddr, size)

\* m_mmapRegions.erase(it)
removeIORegion(R, baseAddr, size) ==
    {r \in R : r.key # RegionKey(baseAddr, size)}

\* AddressSpaceMM::regionType / AddressSpace::regionType
regionType(c, R, address) ==
    IF c = "AddressSpaceMM" /\ findMMapRegion(R, address) # NoRegion THEN "IO" ELSE "Program"

---------------------------------------------------------------------------
(* Virtual dispatch, initialization memories and reset *)

\* a call of the virtual writeMem on an object of dynamic type c
writeMem(c, R, o, address, value, size) ==
    IF c = "AddressSpaceMM"
    THEN AddressSpaceMM_writeMem(R, o, address, value, size)
    ELSE [d |-> AddressSpace_writeMem(o.d, address, value, size), calls |-> o.calls]

\* an addInitializationMemory that advances addr by one byte per element
RECURSIVE InitLoop_byteStep(_, _, _, _, _)
InitLoop_byteStep(mem, addr, program, elementSize, i) ==
    IF i <= Len(program)
    THEN InitLoop_byteStep(AddressSpace_writeMem(mem, addr, program[i], elementSize),
                           AddU(addr, 1), program, elementSize, i + 1)
    ELSE mem

RECURSIVE InitLoop(_, _, _, _, _)
InitLoop(mem, addr, program, elementSize, i) ==
    IF i <= Len(program)
    THEN InitLoop(AddressSpace_writeMem(mem, addr, program[i], elementSize),
                  AddU(addr, elementSize), program, elementSize, i + 1)
    ELSE mem

\* an addInitializationMemory that loads the payload into the segment added last
addInitializationMemory_merging(mems, startAddr, program, elementSize) ==
    IF mems = <<>>
    THEN <<InitLoop(EmptyStore, startAddr, program, elementSize, 1)>>
    ELSE [mems EXCEPT ![Len(mems)] = InitLoop(@, startAddr, program, elementSize, 1)]

\* AddressSpace::addInitializationMemory<T>, elementSize = sizeof(T)
addInitializationMemory(mems, startAddr, program, elementSize) ==
    Append(mems, InitLoop(EmptyStore, startAddr, program, elementSize, 1))

\* the addresses a store holds
Present(d) == {a \in Addr : contains(d, a)}

\* the orders in which an unordered_map may be iterated
RECURSIVE Orders(_)
Orders(S) ==
    IF S = {} THEN {<<>>}
    ELSE UNION {{<<a>> \o p : p \in Orders(S \ {a})} : a \in S}

\* a replay that writes every byte with the width of a word
ReplaySize_word(memData) == WordBytes

\* a replay that writes every byte with the width of a 16-bit value
ReplaySize_halfword(memData) == ByteSize + ByteSize

\* sizeof(memData.second), the size reset passes to writeMem for an entry of a segment
ReplaySize(memData) == ByteSize

\* the inner loop of reset over segment k, iterated in order ord; o = [d, calls, writes]
RECURSIVE ReplaySegment(_, _, _, _, _, _, _)
ReplaySegment(c, R, o, mem, k, ord, i) ==
    IF i <= Len(ord)
    THEN LET memData == <<ord[i], mem[ord[i]]>>
             size == ReplaySize(memData)
             r == writeMem(c, R, [d |-> o.d, calls |-> o.calls],
                           memData[1], <<memData[2], 0, 0, 0>>, size)
         IN ReplaySegment(c, R,
                          [d |-> r.d, calls |-> r.calls,
                           writes |-> o.writes \cup {[seg |-> k, size |-> size]}],
                          mem, k, ord, i + 1)
    ELSE o

\* a reset that replays the first segment only
ReplayAll_firstOnly(c, R, outs, mems, k) ==
    IF k <= Len(mems)
    THEN {ReplaySegment(c, R, o, mems[k], k, ord, 1) :
              o \in outs, ord \in Orders(Present(mems[k]))}
    ELSE outs

RECURSIVE ReplayAll(_, _, _, _, _)
ReplayAll(c, R, outs, mems, k) ==
    IF k <= Len(mems)
    THEN ReplayAll(c, R,
                   {ReplaySegment(c, R, o, mems[k], k, ord, 1) :
                        o \in outs, ord \in Orders(Present(mems[k]))},
                   mems, k + 1)
    ELSE outs

\* a reset that forgets m_data.clear()
clear_forgotten(d) == d

\* m_data.clear()
clear(d) == EmptyStore

\* AddressSpace::reset: the possible outcomes [d, calls], one per iteration order
reset(c, R, d, mems) ==
    ReplayAll(c, R, {[d |-> clear(d), calls |-> <<>>, writes |-> {}]}, mems, 1)

---------------------------------------------------------------------------
(* The calls a simulation makes, and the inputs they are drawn from *)

Classes == {"AddressSpace", "AddressSpaceMM"}
Top == AddrMod - 1                              \* the last address (stands for 0xFFFFFFFF)
MemAddrs == {2, Top}                            \* addresses of writeMem / readMem / readMemConst
Values == {<<17, 34, 51, 68>>, <<255, 0, 128, 254>>}   \* 0x44332211, 0xFE8000FF
Widths == 1 .. WordBytes
StartAddrs == {1}                               \* startAddr of addInitializationMemory
ElementSizes == {1, 2, 4}                       \* sizeof(T) for uint8_t, uint16_t, uint32_t
ProgramValues == {<<17, 34, 51, 68>>}           \* the elements of a program, before conversion to T
RegionBases == {2, 3, Top}
RegionSizes == 0 .. MaxSize
IOs == {"io"}                                   \* the IOFunctors a peripheral registers
IOReadValues == {<<171, 205, 0, 0>>}            \* what a peripheral's ioRead returns

Min(x, y) == IF x <= y THEN x ELSE y

\* program[i] converted to VSRTL_VT_U: an element of type T holds sizeof(T) bytes
Element(v, elementSize) == [i \in 1 .. WordBytes |-> IF i <= elementSize THEN v[i] ELSE 0]
Programs(elementSize) ==
    UNION {[1 .. n -> {Element(v, elementSize) : v \in ProgramValues}] :
               n \in 0 .. Min(MaxN, WordBytes \div elementSize)}

CanCall == ~failed /\ nops < MaxOps

Call(op, address, value, width, ret, program) ==
    [op |-> op, address |-> address, value |-> value, width |-> width, ret |-> ret,
     program |-> program]

Init ==
    /\ cls \in Classes
    /\ m_data = EmptyStore
    /\ m_initializationMemories = <<>>
    /\ m_mmapRegions = {}
    /\ ioCalls = <<>>
    /\ last = Call("constructor", 0, Zero, 0, Zero, <<>>)
    /\ failed = FALSE
    /\ written = {}
    /\ elementSizes = <<>>
    /\ replayWrites = {}
    /\ nops = 0

WriteMem(address, value, size) ==
    /\ CanCall
    /\ LET o == writeMem(cls, m_mmapRegions, [d |-> m_data, calls |-> <<>>], address, value, size)
       IN /\ m_data' = o.d
          /\ ioCalls' = o.calls
          /\ written' = IF o.calls = <<>>
                        THEN written \cup {AddU(address, i) : i \in 0 .. (size - 1)}
                        ELSE written
    /\ last' = Call("writeMem", address, value, size, Zero, <<>>)
    /\ replayWrites' = {}
    /\ nops' = nops + 1
    /\ UNCHANGED <<cls, m_initializationMemories, m_mmapRegions, failed, elementSizes>>

ReadMem(address, width, rv) ==
    /\ CanCall
    /\ LET o == IF cls = "AddressSpaceMM"
                THEN AddressSpaceMM_readMem(m_mmapRegions, m_data, address, width, rv)
                ELSE AddressSpace_readMem(m_data, address, width) @@ [calls |-> <<>>]
       IN /\ m_data' = o.d
          /\ ioCalls' = o.calls
          /\ last' = Call("readMem", address, Zero, width, o.value, <<>>)
    /\ replayWrites' = {}
    /\ nops' = nops + 1
    /\ UNCHANGED <<cls, m_initializationMemories, m_mmapRegions, failed, written, elementSizes>>

ReadMemConst(address, width, rv) ==
    /\ CanCall
    /\ LET o == IF cls = "AddressSpaceMM"
                THEN AddressSpaceMM_readMemConst(m_mmapRegions, m_data, address, width, rv)
                ELSE AddressSpace_readMemConst(m_data, address, width) @@ [calls |-> <<>>]
       IN /\ m_data' = o.d
          /\ ioCalls' = o.calls
          /\ last' = Call("readMemConst", address, Zero, width, o.value, <<>>)
          /\ failed' = o.threw
    /\ nops' = nops + 1
    /\ replayWrites' = {}
    /\ UNCHANGED <<cls, m_initializationMemories, m_mmapRegions, written, elementSizes>>

AddInitializationMemory(startAddr, program, elementSize) ==
    /\ CanCall
    /\ m_initializationMemories' =
           addInitializationMemory(m_initializationMemories, startAddr, program, elementSize)
    /\ ioCalls' = <<>>
    /\ last' = Call("addInitializationMemory", startAddr, Zero, elementSize, Zero, program)
    /\ elementSizes' = Append(elementSizes, elementSize)
    /\ replayWrites' = {}
    /\ nops' = nops + 1
    /\ UNCHANGED <<cls, m_data, m_mmapRegions, failed, written>>

ClearInitializationMemories ==
    /\ CanCall
    /\ m_initializationMemories' = <<>>
    /\ ioCalls' = <<>>
    /\ last' = Call("clearInitializationMemories", 0, Zero, 0, Zero, <<>>)
    /\ elementSizes' = <<>>
    /\ replayWrites' = {}
    /\ nops' = nops + 1
    /\ UNCHANGED <<cls, m_data, m_mmapRegions, failed, written>>

\* a reset that consumes the segments it replays
Reset_consuming ==
    /\ CanCall
    /\ \E o \in reset(cls, m_mmapRegions, m_data, m_initializationMemories) :
          /\ m_data' = o.d
          /\ ioCalls' = o.calls
          /\ written' = Present(o.d)
          /\ replayWrites' = o.writes
    /\ m_initializationMemories' = <<>>
    /\ last' = Call("reset", 0, Zero, 0, Zero, <<>>)
    /\ nops' = nops + 1
    /\ UNCHANGED <<cls, m_mmapRegions, failed, elementSizes>>

Reset ==
    /\ CanCall
    /\ \E o \in reset(cls, m_mmapRegions, m_data, m_initializationMemories) :
          /\ m_data' = o.d
          /\ ioCalls' = o.calls
          /\ written' = Present(o.d)
          /\ replayWrites' = o.writes
    /\ last' = Call("reset", 0, Zero, 0, Zero, <<>>)
    /\ nops' = nops + 1
    /\ UNCHANGED <<cls, m_initializationMemories, m_mmapRegions, failed, elementSizes>>

AddIORegion(baseAddr, size, io) ==
    /\ CanCall
    /\ cls = "AddressSpaceMM"
    /\ IF addIORegion_asserts(m_mmapRegions, baseAddr, size)
       THEN /\ m_mmapRegions' = addIORegion(m_mmapRegions, baseAddr, size, io)
            /\ failed' = FALSE
       ELSE /\ m_mmapRegions' = m_mmapRegions
            /\ failed' = TRUE
    /\ ioCalls' = <<>>
    /\ last' = Call("addIORegion", baseAddr, Zero, size, Zero, <<>>)
    /\ replayWrites' = {}
    /\ nops' = nops + 1
    /\ UNCHANGED <<cls, m_data, m_initializationMemories, written, elementSizes>>

RemoveIORegion(baseAddr, size) ==
    /\ CanCall
    /\ cls = "AddressSpaceMM"
    /\ IF removeIORegion_assert(m_mmapRegions, baseAddr, size)
       THEN /\ m_mmapRegions' = removeIORegion(m_mmapRegions, baseAddr, size)
            /\ failed' = FALSE
       ELSE /\ m_mmapRegions' = m_mmapRegions
            /\ failed' = TRUE
    /\ ioCalls' = <<>>
    /\ last' = Call("removeIORegion", baseAddr, Zero, size, Zero, <<>>)
    /\ replayWrites' = {}
    /\ nops' = nops + 1
    /\ UNCHANGED <<cls, m_data, m_initializationMemories, written, elementSizes>>

Next ==
    \/ \E a \in MemAddrs, v \in Values, w \in Widths : WriteMem(a, v, w)
    \/ \E a \in MemAddrs, w \in Widths, rv \in IOReadValues : ReadMem(a, w, rv)
    \/ \E a \in MemAddrs, w \in Widths, rv \in IOReadValues : ReadMemConst(a, w, rv)
    \/ \E s \in StartAddrs, e \in ElementSizes : \E p \in Programs(e) :
           AddInitializationMemory(s, p, e)
    \/ ClearInitializationMemories
    \/ Reset
    \/ \E b \in RegionBases, n \in RegionSizes, io \in IOs : AddIORegion(b, n, io)
    \/ \E b \in RegionBases, n \in RegionSizes : RemoveIORegion(b, n)

Spec == Init /\ [][Next]_vars

---------------------------------------------------------------------------
(* Notions the properties are stated with *)

\* the addresses [base, base + size - 1] of a region
Range(r) == r.base .. (r.base + r.size - 1)

\* v & ((1 << 8w) - 1)
Mask(v, w) == [i \in 1 .. WordBytes |-> IF i <= w THEN v[i] ELSE 0]

MemOps == {"writeMem", "readMem", "readMemConst"}

ReadOps == {"readMem", "readMemConst"}

\* the addresses a call of width w at address a accesses
Accessed(a, w) == {AddU(a, i) : i \in 0 .. w - 1}

\* the byte written at address a, 0 when none was written since the store was cleared
StoredOrZero(a) == IF a \in written THEN m_data[a] ELSE 0

\* the step is a call of op
Called(op) == nops' = nops + 1 /\ last'.op = op

\* the segments that hold a byte at address a, by index
Holders(a) ==
    {k \in 1 .. Len(m_initializationMemories) : contains(m_initializationMemories[k], a)}

\* the largest element of a non-empty set of integers
Max(S) == CHOOSE x \in S : \A y \in S : y <= x

---------------------------------------------------------------------------
(* C1: no two distinct registered I/O regions overlap: their address ranges
   [base, base + size - 1] are disjoint.  Refuted: addIORegion only looks up
   the first and the last address of the new region, so a region that
   encloses a registered one is accepted. *)
C1_RegionsNeverOverlap ==
    \A r \in m_mmapRegions : \A q \in m_mmapRegions :
        r # q => Range(r) \cap Range(q) = {}

(* C2: findRegion(a) returns a registered region r exactly when
   r.base <= a <= r.base + r.size - 1, and none when no registered region
   contains a.  Refuted in the states C1's bug (and a wrapped key) produce. *)
C2_FindRegionExact ==
    \A a \in Addr :
        LET f == findMMapRegion(m_mmapRegions, a)
        IN IF \E r \in m_mmapRegions : a \in Range(r)
           THEN f \in m_mmapRegions /\ a \in Range(f)
           ELSE f = NoRegion

(* C3: after reset() on the plain address space the byte store holds exactly
   the bytes of the recorded segments: an address is present iff some segment
   wrote it, and its value is the byte of the last-registered segment that
   wrote it; nothing else survives the reset. *)
C3_ResetRestoresSegments ==
    (cls = "AddressSpace" /\ last.op = "reset") =>
        \A a \in Addr :
            IF Holders(a) = {}
            THEN ~contains(m_data, a)
            ELSE m_data[a] = m_initializationMemories[Max(Holders(a))][a]

\* a reset of a plain address space whose two segments disagree on a byte
C3_Witness ==
    /\ cls = "AddressSpace"
    /\ last.op = "reset"
    /\ Len(m_initializationMemories) = 2
    /\ \E a \in Addr :
          /\ Holders(a) = {1, 2}
          /\ m_initializationMemories[1][a] # m_initializationMemories[2][a]
          /\ m_data[a] = m_initializationMemories[2][a]
    /\ \E a \in Addr : Holders(a) = {1} /\ m_data[a] = m_initializationMemories[1][a]

(* C4: a writeMem(a, v, w) that is not dispatched to an I/O region, followed
   immediately by readMem(a, w) or readMemConst(a, w), returns
   v & ((1 << 8w) - 1), also when a + w - 1 wraps past the last address. *)
C4_WriteReadRoundTrip ==
    [][ ( /\ last.op = "writeMem"
          /\ ioCalls = <<>>
          /\ (Called("readMem") \/ Called("readMemConst"))
          /\ last'.address = last.address
          /\ last'.width = last.width )
        => last'.ret = Mask(last.value, last.width) ]_vars

\* a 4-byte read at the last address returns 0xFE8000FF, which only a write there stores
C4_Witness ==
    /\ last.op \in {"readMem", "readMemConst"}
    /\ last.address = Top
    /\ last.width = WordBytes
    /\ last.ret = <<255, 0, 128, 254>>
    /\ ioCalls = <<>>

(* C5: on the plain address space contains(a) is true iff a byte has been
   written at a since the store was last cleared; reads never make it true.
   Refuted: readMem reads through operator[], which inserts the address. *)
C5_ContainsIffWritten ==
    cls = "AddressSpace" => \A a \in Addr : contains(m_data, a) <=> a \in written

(* C6: a writeMem, readMem or readMemConst whose address is covered by a
   registered region invokes that region's callback exactly once, with
   offset = address - base and the caller's width, returns the callback's
   result for reads, and leaves the byte store alone.  Refuted in the states
   C1's bug (and a wrapped key) produce. *)
C6_CoveredAccessIsForwarded ==
    [][ ( /\ nops' = nops + 1
          /\ last'.op \in MemOps
          /\ \E r \in m_mmapRegions : last'.address \in Range(r) )
        => /\ m_data' = m_data
           /\ Len(ioCalls') = 1
           /\ \E r \in m_mmapRegions :
                 /\ last'.address \in Range(r)
                 /\ ioCalls'[1].key = r.key
                 /\ ioCalls'[1].io = r.io
                 /\ ioCalls'[1].offset = last'.address - r.base
           /\ ioCalls'[1].width = last'.width
           /\ IF last'.op = "writeMem"
              THEN ioCalls'[1].fn = "ioWrite" /\ ioCalls'[1].value = last'.value
              ELSE ioCalls'[1].fn = "ioRead" /\ last'.ret \in IOReadValues ]_vars

(* C7: reset() on a memory-mapped address space leaves the registered regions
   unchanged and invokes no region's callback.  Refuted: reset replays the
   segments through the virtual writeMem, which forwards to ioWrite. *)
C7_ResetInvokesNoCallback ==
    [][ Called("reset") => (m_mmapRegions' = m_mmapRegions /\ ioCalls' = <<>>) ]_vars

(* C8: removeIORegion(base, size) removes a region only when a region with
   exactly that base and size is registered; any other call fails and removes
   nothing.  Refuted: the lookup is by the key base + size - 1 alone. *)
C8_RemoveNeedsExactMatch ==
    [][ Called("removeIORegion") =>
          IF \E r \in m_mmapRegions : r.base = last'.address /\ r.size = last'.width
          THEN /\ ~failed'
               /\ m_mmapRegions' =
                      {r \in m_mmapRegions : ~(r.base = last'.address /\ r.size = last'.width)}
          ELSE failed' /\ m_mmapRegions' = m_mmapRegions ]_vars

(* C9: addIORegion(base, size, io) fails whenever size = 0 or a registered
   region covers base or base + size - 1, and then registers nothing;
   otherwise it registers the region under key base + size - 1.  Refuted in
   the states C1's bug (and a wrapped key) produce. *)
C9_AddFailsOnCoveredEnds ==
    [][ Called("addIORegion") =>
          LET b == last'.address
              n == last'.width
          IN IF \/ n = 0
                \/ \E r \in m_mmapRegions : b \in Range(r) \/ RegionKey(b, n) \in Range(r)
             THEN failed' /\ m_mmapRegions' = m_mmapRegions
             ELSE /\ ~failed'
                  /\ \E r \in m_mmapRegions' :
                        r.key = RegionKey(b, n) /\ r.base = b /\ r.size = n
                  /\ {r \in m_mmapRegions' : r.key # RegionKey(b, n)}
                         = {r \in m_mmapRegions : r.key # RegionKey(b, n)} ]_vars

(* C10: readMemConst(a, w), on the plain and on the memory-mapped address
   space, leaves the byte store unchanged: contains(x) and the byte at x are
   the same before and after, for every address x. *)
C10_ReadMemConstKeepsStore ==
    [][ Called("readMemConst") => m_data' = m_data ]_vars

\* a readMemConst that covers an address the store does not hold
C10_Witness ==
    /\ last.op = "readMemConst"
    /\ ioCalls = <<>>
    /\ \E i \in 0 .. (last.width - 1) : ~contains(m_data, AddU(last.address, i))
    /\ \E a \in Addr : contains(m_data, a)


---------------------------------------------------------------------------
(* C11: on a plain address space, in every reachable state, readMem(a, w)
   and readMemConst(a, w) return the same value for every address a and
   every width w in 1..4; a read that was made returned what the other read
   returns. *)
C11_ReadsAgree ==
    cls = "AddressSpace" =>
        /\ \A a \in Addr, w \in Widths :
              AddressSpace_readMem(m_data, a, w).value
                  = AddressSpace_readMemConst(m_data, a, w).value
        /\ last.op = "readMem" =>
              last.ret = AddressSpace_readMemConst(m_data, last.address, last.width).value
        /\ last.op = "readMemConst" =>
              last.ret = AddressSpace_readMem(m_data, last.address, last.width).value

\* a read over written and never-written bytes returned a non-zero value
C11_Witness ==
    /\ cls = "AddressSpace"
    /\ last.op = "readMem"
    /\ last.ret # Zero
    /\ Accessed(last.address, last.width) \ written # {}
    /\ \E a \in Addr : ~contains(m_data, a)

(* C12: a readMem or readMemConst of width w at an address a that is not
   dispatched to I/O returns the little-endian value whose byte i is the
   byte stored at a + i when one was written and 0 when none was; bytes
   i >= w are 0.  A read of never-written bytes returns 0. *)
C12_ReadIsLittleEndian ==
    (last.op \in ReadOps /\ ioCalls = <<>>) =>
        last.ret = [i \in 1 .. WordBytes |->
                       IF i <= last.width THEN StoredOrZero(AddU(last.address, i - 1)) ELSE 0]

\* a read over a mix of written and never-written bytes, a non-zero byte above byte 0
C12_Witness ==
    /\ last.op \in ReadOps
    /\ ioCalls = <<>>
    /\ Accessed(last.address, last.width) \ written # {}
    /\ \E i \in 2 .. WordBytes : last.ret[i] # 0

(* C13: reset() is idempotent: a reset that directly follows a reset leaves
   the byte store as the first one left it, and no reset changes the
   segments or the registered regions. *)
C13_ResetIdempotent ==
    /\ [](last.op = "reset" =>
              \A o \in reset(cls, m_mmapRegions, m_data, m_initializationMemories) :
                  o.d = m_data)
    /\ [][Called("reset") =>
              /\ m_initializationMemories' = m_initializationMemories
              /\ m_mmapRegions' = m_mmapRegions
              /\ last.op = "reset" => m_data' = m_data]_vars

\* a reset has replayed a segment into the store
C13_Witness ==
    /\ last.op = "reset"
    /\ m_initializationMemories # <<>>
    /\ m_data # EmptyStore
    /\ nops >= 2

(* C14: a segment recorded by addInitializationMemory stays recorded until
   clearInitializationMemories() is called, whatever resets, writes and
   reads intervene, and every reset() replays every recorded segment: each
   byte of each segment is written to the store, or handed to the ioWrite of
   the region its address is dispatched to.  A reset with no segment
   recorded, as after a clear, leaves the byte store empty. *)
C14_SegmentsReplayedUntilCleared ==
    /\ [](last.op = "reset" =>
              /\ \A k \in 1 .. Len(m_initializationMemories) :
                    \A a \in Present(m_initializationMemories[k]) :
                        LET r == IF cls = "AddressSpaceMM"
                                 THEN findMMapRegion(m_mmapRegions, a) ELSE NoRegion
                        IN IF r = NoRegion
                           THEN /\ contains(m_data, a)
                                /\ m_data[a] = m_initializationMemories[Max(Holders(a))][a]
                           ELSE \E i \in 1 .. Len(ioCalls) :
                                    /\ ioCalls[i].fn = "ioWrite"
                                    /\ ioCalls[i].key = r.key
                                    /\ ioCalls[i].offset = SubU(a, r.base)
                                    /\ ioCalls[i].value[1] = m_initializationMemories[k][a]
              /\ m_initializationMemories = <<>> => m_data = EmptyStore)
    /\ [][m_initializationMemories' # m_initializationMemories =>
              \/ /\ Called("clearInitializationMemories")
                 /\ m_initializationMemories' = <<>>
              \/ /\ Called("addInitializationMemory")
                 /\ Len(m_initializationMemories') = Len(m_initializationMemories) + 1
                 /\ SubSeq(m_initializationMemories', 1, Len(m_initializationMemories))
                        = m_initializationMemories]_vars

\* after another call and a reset, the first segment is back in the store
C14_Witness ==
    /\ last.op = "reset"
    /\ nops >= 3
    /\ Len(m_initializationMemories) = 1
    /\ Present(m_initializationMemories[1]) # {}
    /\ \A a \in Present(m_initializationMemories[1]) :
          m_data[a] = m_initializationMemories[1][a]
    /\ \E w \in replayWrites : w.seg = 1

\* the segment store the payload describes: byte j of element i at startAddr + i * elementSize + j
ExpectedSegment(startAddr, program, elementSize) ==
    [a \in Addr |->
        LET hits == {h \in (1 .. Len(program)) \X (0 .. elementSize - 1) :
                        AddU(startAddr, (h[1] - 1) * elementSize + h[2]) = a}
        IN IF hits = {} THEN NoByte
           ELSE LET h == CHOOSE h \in hits : TRUE IN program[h[1]][h[2] + 1]]

(* C15: addInitializationMemory(startAddr, program, elementSize) leaves the
   live byte store unchanged and appends exactly one segment, whose store
   holds byte j of element i of the payload (least significant byte first)
   at startAddr + i * elementSize + j and nothing else. *)
C15_AddInitializationMemoryAppends ==
    [][Called("addInitializationMemory") =>
          /\ m_data' = m_data
          /\ m_initializationMemories'
                = Append(m_initializationMemories,
                         ExpectedSegment(last'.address, last'.program, last'.width))]_vars

\* two 16-bit elements were recorded while the live store held bytes
C15_Witness ==
    /\ last.op = "addInitializationMemory"
    /\ last.width = 2
    /\ Len(last.program) = 2
    /\ m_data # EmptyStore
    /\ m_initializationMemories # <<>>
    /\ m_initializationMemories[Len(m_initializationMemories)][AddU(last.address, 3)]
          = last.program[2][2]
    /\ last.program[2][2] # 0

\* some registered region covers address a (in the address arithmetic of the machine)
Covered(a) == \E r \in m_mmapRegions : SubU(a, r.base) < r.size

(* C16: for accesses not covered by any region the memory-mapped address
   space behaves exactly as the plain one.  Every writeMem, readMem,
   readMemConst, addInitializationMemory and reset on a memory-mapped
   address space that accesses or replays no covered address leaves the
   byte store and returns the value that the plain operation leaves and
   returns from the same store and segments, and calls no peripheral; so
   two objects run side by side on such calls agree after every step. *)
C16_UncoveredAccessIsPlain ==
    [][(cls = "AddressSpaceMM" /\ nops' = nops + 1) =>
          /\ (last'.op = "writeMem"
                 /\ \A a \in Accessed(last'.address, last'.width) : ~Covered(a)) =>
                /\ m_data' = AddressSpace_writeMem(m_data, last'.address, last'.value,
                                                   last'.width)
                /\ ioCalls' = <<>>
          /\ (last'.op = "readMem"
                 /\ \A a \in Accessed(last'.address, last'.width) : ~Covered(a)) =>
                LET plain == AddressSpace_readMem(m_data, last'.address, last'.width)
                IN m_data' = plain.d /\ last'.ret = plain.value /\ ioCalls' = <<>>
          /\ (last'.op = "readMemConst"
                 /\ \A a \in Accessed(last'.address, last'.width) : ~Covered(a)) =>
                LET plain == AddressSpace_readMemConst(m_data, last'.address, last'.width)
                IN m_data' = plain.d /\ last'.ret = plain.value /\ ioCalls' = <<>>
          /\ last'.op = "addInitializationMemory" =>
                /\ m_data' = m_data
                /\ m_initializationMemories'
                      = addInitializationMemory(m_initializationMemories, last'.address,
                                                last'.program, last'.width)
          /\ (last'.op = "reset"
                 /\ \A k \in 1 .. Len(m_initializationMemories) :
                       \A a \in Present(m_initializationMemories[k]) : ~Covered(a)) =>
                /\ \A plain \in reset("AddressSpace", {}, m_data, m_initializationMemories) :
                      m_data' = plain.d
                /\ ioCalls' = <<>>]_vars

\* with a region registered, a read beside it returned bytes of the store
C16_Witness ==
    /\ cls = "AddressSpaceMM"
    /\ m_mmapRegions # {}
    /\ last.op = "readMem"
    /\ \A a \in Accessed(last.address, last.width) : ~Covered(a)
    /\ ioCalls = <<>>
    /\ last.ret # Zero

(* C17: regionType(a) on the memory-mapped address space returns IO iff some
   registered region covers a and Program otherwise, in every state
   reachable by adding and removing regions; on the plain address space it
   always returns Program.  Refuted: regionType asks findMMapRegion, which
   misses a covered address once regions overlap or a region wraps (C1). *)
C17_RegionTypeIffCovered ==
    \A a \in Addr :
        regionType(cls, m_mmapRegions, a)
            = IF cls = "AddressSpaceMM" /\ (\E r \in m_mmapRegions : a \in Range(r))
              THEN "IO" ELSE "Program"

(* C18: a writeMem(a, v, size) that reaches the byte store sets the byte at
   a + i to (v >> 8i) & 0xFF for every i in 0 .. size - 1, whatever the
   alignment of a, and leaves every other address as it was. *)
C18_WriteMemStoresLittleEndian ==
    [][(Called("writeMem") /\ ioCalls' = <<>>) =>
          \A x \in Addr :
              m_data'[x] = IF x \in Accessed(last'.address, last'.width)
                           THEN last'.value[SubU(x, last'.address) + 1]
                           ELSE m_data[x]]_vars

\* an unaligned three-byte write beside bytes it left alone
C18_Witness ==
    /\ last.op = "writeMem"
    /\ ioCalls = <<>>
    /\ last.width = 3
    /\ last.address % WordBytes # 0
    /\ m_data[AddU(last.address, 2)] = last.value[3]
    /\ last.value[3] # 0
    /\ \E x \in Addr \ Accessed(last.address, last.width) : contains(m_data, x)

(* C19: every writeMem, readMem and readMemConst completes with a defined
   result in every reachable state, at any address and any width 1..4,
   never-written and unmapped addresses included: it does not fail, the
   value returned is a word of bytes and the store stays well formed.  Only
   addIORegion and removeIORegion end in a fatal failure. *)
C19_MemoryAccessNeverFails ==
    /\ failed => last.op \in {"addIORegion", "removeIORegion"}
    /\ last.op \in MemOps =>
          /\ ~failed
          /\ \A i \in 1 .. WordBytes : last.ret[i] \in 0 .. 255
          /\ \A a \in Addr : m_data[a] = NoByte \/ m_data[a] \in 0 .. 255

\* a four-byte readMemConst of never-written bytes across the end of the address range
C19_Witness ==
    /\ last.op = "readMemConst"
    /\ ~failed
    /\ last.width = WordBytes
    /\ AddU(last.address, last.width - 1) < last.address
    /\ \A a \in Accessed(last.address, last.width) : ~contains(m_data, a)
    /\ last.ret = Zero

(* C20: reset() replays each segment with a write width equal to the element
   size the segment was recorded with: every writeMem the replay of a
   segment added with elementSize = k issues has size k.  Refuted: a segment
   keeps bytes only, and reset passes sizeof(memData.second) = 1. *)
C20_ReplayWidthIsElementSize ==
    last.op = "reset" => \A w \in replayWrites : w.size = elementSizes[w.seg]

(* C20, amended: reset() replays each segment one byte at a time: every
   writeMem the replay issues has size 1, whatever element size the segment
   was recorded with, every segment that holds a byte is replayed, and a
   peripheral that receives a replayed byte receives it with size 1. *)
C20_ReplayWidthIsOneByte ==
    last.op = "reset" =>
        /\ \A w \in replayWrites : w.size = ByteSize
        /\ \A k \in 1 .. Len(m_initializationMemories) :
              Present(m_initializationMemories[k]) # {} => \E w \in replayWrites : w.seg = k
        /\ \A i \in 1 .. Len(ioCalls) : ioCalls[i].width = ByteSize

\* a segment of one 32-bit word was replayed as writes of one byte
C20_Witness ==
    /\ last.op = "reset"
    /\ \E k \in 1 .. Len(m_initializationMemories) :
          /\ elementSizes[k] = WordBytes
          /\ Present(m_initializationMemories[k]) # {}
          /\ [seg |-> k, size |-> ByteSize] \in replayWrites

\* the addresses [b, b + s - 1] of a region, in the address arithmetic of the machine
RegionAddrs(b, s) == {AddU(b, i) : i \in 0 .. s - 1}

(* C21: region dispatch is decided by the start address of an access alone.
   A writeMem, readMem or readMemConst that starts outside every registered
   region is served entirely by the plain byte store, also where it extends
   into a region: no callback is invoked and a write stores all its bytes.
   One that starts inside a region is forwarded whole, with its full width,
   to that region's callback, also where it extends past the region's last
   address.  Refuted in the states C1's bug produces: the lookup misses a
   start address that an enclosing region covers. *)
C21_DispatchByStartAddress ==
    [][(cls = "AddressSpaceMM" /\ nops' = nops + 1 /\ last'.op \in MemOps) =>
          LET inside == {r \in m_mmapRegions : last'.address \in Range(r)}
          IN /\ inside = {} =>
                   /\ ioCalls' = <<>>
                   /\ last'.op = "writeMem" =>
                         m_data' = AddressSpace_writeMem(m_data, last'.address, last'.value,
                                                        last'.width)
                   /\ last'.op = "readMem" =>
                         last'.ret = AddressSpace_readMem(m_data, last'.address,
                                                          last'.width).value
                   /\ last'.op = "readMemConst" =>
                         last'.ret = AddressSpace_readMemConst(m_data, last'.address,
                                                               last'.width).value
             /\ inside # {} =>
                   /\ m_data' = m_data
                   /\ Len(ioCalls') = 1
                   /\ ioCalls'[1].key \in {r.key : r \in inside}
                   /\ ioCalls'[1].width = last'.width]_vars

(* C22: initialization segments are immutable once added.  writeMem,
   readMem, readMemConst, reset, addIORegion and removeIORegion leave the
   list of segments and every segment's bytes unchanged;
   addInitializationMemory appends one segment and leaves the earlier ones
   as they were; only clearInitializationMemories removes segments. *)
C22_SegmentsImmutable ==
    [][nops' = nops + 1 =>
          /\ last'.op \in MemOps \cup {"reset", "addIORegion", "removeIORegion"} =>
                m_initializationMemories' = m_initializationMemories
          /\ last'.op = "addInitializationMemory" =>
                /\ Len(m_initializationMemories') = Len(m_initializationMemories) + 1
                /\ \A k \in 1 .. Len(m_initializationMemories) :
                      m_initializationMemories'[k] = m_initializationMemories[k]
          /\ Len(m_initializationMemories') < Len(m_initializationMemories) =>
                last'.op = "clearInitializationMemories"]_vars

\* a second, different segment was added over the addresses of the first
C22_Witness ==
    /\ last.op = "addInitializationMemory"
    /\ Len(m_initializationMemories) = 2
    /\ Present(m_initializationMemories[1]) \cap Present(m_initializationMemories[2]) # {}
    /\ Present(m_initializationMemories[1]) # Present(m_initializationMemories[2])
    /\ elementSizes[1] # elementSizes[2]

(* C23: every registered region satisfies base <= key, where
   key = (base + size - 1) mod 2^32 is the key it is stored under:
   addIORegion never registers a region whose last address wrapped around
   below its base, so every address of a registered region is found by
   findMMapRegion.  Refuted: addIORegion does not check for the wrap. *)
C23_KeyNeverWraps ==
    \A r \in m_mmapRegions :
        /\ r.base <= r.key
        /\ \A a \in RegionAddrs(r.base, r.size) : findMMapRegion(m_mmapRegions, a) = r

(* C24: a successful addIORegion(b, s, io) followed by removeIORegion(b, s)
   restores the region index, and both calls leave the byte store and the
   segments unchanged; the bytes stored at the addresses [b, b + s - 1] are
   hidden from readMem / readMemConst while the region is registered and are
   returned again after it is removed.  Refuted in the states the bugs of
   C23 and C1 produce. *)
C24_AddThenRemoveRestores ==
    [][nops' = nops + 1 =>
          /\ (last'.op = "removeIORegion" /\ ~failed') =>
                m_data' = m_data /\ m_initializationMemories' = m_initializationMemories
          /\ (last'.op = "addIORegion" /\ ~failed') =>
                LET b == last'.address
                    s == last'.width
                    removed == removeIORegion(m_mmapRegions', b, s)
                IN /\ m_data' = m_data
                   /\ m_initializationMemories' = m_initializationMemories
                   /\ removeIORegion_assert(m_mmapRegions', b, s)
                   /\ removed = m_mmapRegions
                   /\ \A a \in RegionAddrs(b, s), w \in Widths, rv \in IOReadValues :
                         /\ AddressSpaceMM_readMem(m_mmapRegions', m_data, a, w, rv).calls
                               # <<>>
                         /\ AddressSpaceMM_readMemConst(m_mmapRegions', m_data, a, w, rv).calls
                               # <<>>
                         /\ AddressSpaceMM_readMem(removed, m_data, a, w, rv).value
                               = AddressSpace_readMem(m_data, a, w).value
                         /\ AddressSpaceMM_readMemConst(removed, m_data, a, w, rv).value
                               = AddressSpace_readMemConst(m_data, a, w).value]_vars

(* C25: the byte store reset() produces on the plain address space does not
   depend on the order in which the bytes of a segment are replayed: every
   iteration order of every segment's unordered map gives the same store,
   which holds at each address the byte of the segment registered last among
   those holding one. *)
C25_ResetOrderIndependent ==
    cls = "AddressSpace" =>
        \A o \in reset(cls, m_mmapRegions, m_data, m_initializationMemories) :
            \A a \in Addr :
                o.d[a] = IF Holders(a) = {} THEN NoByte
                         ELSE m_initializationMemories[Max(Holders(a))][a]

\* a reset replayed two overlapping segments of several bytes, the later one winning
C25_Witness ==
    /\ cls = "AddressSpace"
    /\ last.op = "reset"
    /\ Len(m_initializationMemories) = 2
    /\ Cardinality(Present(m_initializationMemories[1])) >= 2
    /\ Cardinality(Present(m_initializationMemories[2])) >= 2
    /\ \E a \in Addr :
          /\ Holders(a) = {1, 2}
          /\ m_initializationMemories[1][a] # m_initializationMemories[2][a]
          /\ m_data[a] = m_initializationMemories[2][a]

=============================================================================
